---- MODULE Spec2Model ----
(***************************************************************************)
(* Model of the facilitation session of AgileGamifAI: the GameFacilitator  *)
(* component (countdown timer, step cursor, completion signal), the        *)
(* browser interval timers it schedules, and the App view switch that      *)
(* mounts and unmounts it.                                                 *)
(*                                                                         *)
(* React 18 flushes the state updates of a click handler, the re-render    *)
(* and the passive effects of that render before the next task runs, so    *)
(* every action below is one handler together with the effect cleanup and  *)
(* effect body that its state change triggers.                             *)
(***************************************************************************)
EXTENDS Integers, Sequences, FiniteSets, TLC

(* ---------------- bounds ---------------- *)
MaxDuration == 1        \* game.duration ranges over 1..MaxDuration minutes
MaxLen == 3             \* longest raw instruction text, in characters
MaxTimers == 2          \* number of setInterval calls in one behaviour
MaxCompletions == 2     \* number of onComplete calls in one behaviour
MaxFormatSeconds == 6000 \* largest argument given to formatTime
MaxClockSteps == 8      \* number of times the rate limiter's clock advances
MaxOverLimit == 2       \* requests recorded beyond maxRequests in one window
MaxKeyBody == 9         \* longest body of an API key after its prefix
MaxKeyClock == 2        \* number of times the API key service's clock advances
MaxCalls == 2           \* generate calls of the LLM service that can be in flight together
MaxFetches == 3         \* fetches the LLM service issues in one behaviour
MaxTextLen == 5         \* longest instruction text given to the step parser alone
MaxAppends == 3         \* usage events logged in one behaviour
MaxGames == 7           \* games the library can hold
MaxLlmClock == 2        \* number of times the LLM service's clock advances

(* ---------------- program constants ---------------- *)
SecondsPerMinute == 60
maxRequests == 10       \* RateLimitService.DEFAULT_CONFIG.maxRequests
windowMs == 60000       \* RateLimitService.DEFAULT_CONFIG.windowMs
llmMaxRequests == 20    \* LLMService: maxRequests outside development
timeWindowMinutes == 1  \* LLMService: timeWindow, in minutes
MAX_LOG_ENTRIES == 1000   \* UsageMonitoringService: entries kept by a clean-up
CLEANUP_THRESHOLD == 1200 \* UsageMonitoringService: longest log left alone

(* ---------------- strings ---------------- *)
\* A string is a sequence of characters; two kinds of white space and one
\* printing character are enough to exercise trim/split/filter.
WhiteSpace == {" ", "\n"}
Chars == WhiteSpace \cup {"a"}
Strings == UNION {[1..n -> Chars] : n \in 0..MaxLen}

RECURSIVE TrimStart(_)
TrimStart(s) ==
  IF s # <<>> /\ Head(s) \in WhiteSpace THEN TrimStart(Tail(s)) ELSE s

RECURSIVE TrimEnd(_)
TrimEnd(s) ==
  IF s # <<>> /\ s[Len(s)] \in WhiteSpace
  THEN TrimEnd(SubSeq(s, 1, Len(s) - 1)) ELSE s

\* String.prototype.trim
trim(s) == TrimEnd(TrimStart(s))

\* String.prototype.split('\n'): the pieces between newlines; the empty
\* string splits into one empty piece.
RECURSIVE split(_)
split(s) ==
  IF \E i \in 1..Len(s) : s[i] = "\n"
  THEN LET i == CHOOSE k \in 1..Len(s) :
                  s[k] = "\n" /\ \A j \in 1..(k - 1) : s[j] # "\n"
       IN <<SubSeq(s, 1, i - 1)>> \o split(SubSeq(s, i + 1, Len(s)))
  ELSE <<s>>

\* Array.prototype.map(line => line.trim())
RECURSIVE mapTrim(_)
mapTrim(lines) ==
  IF lines = <<>> THEN <<>>
  ELSE <<trim(Head(lines))>> \o mapTrim(Tail(lines))

\* Array.prototype.filter(line => line.length > 0)
RECURSIVE filterNonEmpty(_)
filterNonEmpty(lines) ==
  IF lines = <<>> THEN <<>>
  ELSE IF Len(Head(lines)) > 0
       THEN <<Head(lines)>> \o filterNonEmpty(Tail(lines))
       ELSE filterNonEmpty(Tail(lines))

instructionStepsKeepEmpty(g) == mapTrim(split(trim(g.instructions)))
instructionSteps(g) == filterNonEmpty(mapTrim(split(trim(g.instructions))))

(* ---------------- state ---------------- *)
VARIABLES
  game,             \* the selected Game record: duration (minutes), instructions
  selectedGameId,   \* App: id of the selected game, or NoGame
  currentView,      \* App: 'library' | 'create' | 'favorites' | 'detail' | 'facilitator'
  timeRemaining,    \* GameFacilitator: seconds left
  isRunning,        \* GameFacilitator: countdown active
  currentStep,      \* GameFacilitator: step cursor
  intervalRef,      \* GameFacilitator: intervalRef.current (NoTimer for null)
  activeIntervals,  \* browser: ids of the repeating timers that are scheduled
  nextTimerId,      \* browser: id the next setInterval returns
  completeCount,    \* number of onComplete() calls made so far
  lastOp,           \* the operation that produced the current state
  ticks,            \* interval callbacks run since the session was mounted or reset
  fmtIn,            \* formatTime: its argument timeInSeconds
  fmtOut,           \* formatTime: the string it returned (empty before the call)
  rlNow,            \* RateLimitService: Date.now(), in milliseconds
  rlStore,          \* RateLimitService: the entry under STORAGE_KEY in localStorage
  rlAllowed,        \* RateLimitService: what the last isRequestAllowed() returned
  rlOp,             \* RateLimitService: the last method called
  akKey,            \* APIKeyService: localStorage under STORAGE_KEY
  akConfig,         \* APIKeyService: localStorage under STORAGE_CONFIG_KEY
  akEnv,            \* APIKeyService: the environment's VITE_HF_ACCESS_TOKEN
  akNow,            \* APIKeyService: new Date()
  akArg,            \* APIKeyService: argument of the last setUserProvidedKey
  akThrew,          \* APIKeyService: message of the error the last call threw
  akResult,         \* APIKeyService: what the last getAPIKeyConfig returned
  akOp,             \* APIKeyService: the last method called
  llmNow,           \* LLMService: Date.now(), in milliseconds
  llmRequests,      \* RateLimiter.requests: the recorded timestamps
  llmPc,            \* per call: "idle" or "fetching" (awaiting fetch)
  llmKind,          \* per call: the method that is running
  llmLast,          \* the call that took the last step and how it ended
  llmStarted,       \* times at which a fetch was issued
  llmIssued,        \* number of fetches issued since the initial state
  stepsIn,          \* step parser: game.instructions
  stepsOut,         \* step parser: instructionSteps
  stepsDone,        \* step parser: the component has rendered
  hEvent,           \* serverless handler: the event it was invoked with
  hApiKey,          \* serverless handler: process.env.HF_ACCESS_TOKEN is set
  hPc,              \* serverless handler: "idle", "awaiting" (the LLM) or "done"
  hResponse,        \* serverless handler: the response it returned
  ulEvents,         \* UsageMonitoringService: the array stored under STORAGE_KEY
  ulNow,            \* UsageMonitoringService: the last Date.now(), in milliseconds
  ulLogged,         \* number of events logged since the initial state
  ulOp,             \* UsageMonitoringService: the last method called
  games,            \* App: the games fetched or saved
  filters,          \* App: the filters of the library (maxDuration)
  currentPage,      \* App: the page of the library grid
  itemsPerPage,     \* App: games shown on one page
  isLoading,        \* App: the fetch of the games is pending
  loadError         \* App: the fetch of the games failed (error is set)

facilitatorVars == <<game, selectedGameId, currentView, timeRemaining, isRunning,
                     currentStep, intervalRef, activeIntervals, nextTimerId,
                     completeCount, lastOp, ticks>>
formatVars == <<fmtIn, fmtOut>>
rateVars == <<rlNow, rlStore, rlAllowed, rlOp>>

\* What the facilitator's handlers never touch.
keyVars == <<akKey, akConfig, akEnv, akNow, akArg, akThrew, akResult, akOp>>

\* The services that neither the facilitator, formatTime nor the
\* RateLimitService touches.
llmVars == <<llmNow, llmRequests, llmPc, llmKind, llmLast, llmStarted,
            llmIssued>>
parserVars == <<stepsIn, stepsOut, stepsDone>>
handlerVars == <<hEvent, hApiKey, hPc, hResponse>>
usageVars == <<ulEvents, ulNow, ulLogged, ulOp>>
serviceVars == <<keyVars, llmVars, parserVars, handlerVars, usageVars>>

\* The library of App, without its page cursor.
gridVars == <<games, filters, itemsPerPage, isLoading, loadError>>
libraryVars == <<gridVars, currentPage>>

\* What the facilitator's handlers never touch.
otherVars == <<formatVars, rateVars, serviceVars, libraryVars>>

vars == <<facilitatorVars, libraryVars, formatVars, rateVars, serviceVars>>

\* What the library's handlers never touch.
notLibraryVars == <<formatVars, rateVars, serviceVars>>

\* What the APIKeyService never touches.
notKeyVars == <<facilitatorVars, libraryVars, formatVars, rateVars, llmVars, parserVars,
               handlerVars, usageVars>>

\* What the LLMService never touches.
notLlmVars == <<facilitatorVars, libraryVars, formatVars, rateVars, keyVars, parserVars,
               handlerVars, usageVars>>

\* What the derivation of the steps never touches.
notParserVars == <<facilitatorVars, libraryVars, formatVars, rateVars, keyVars, llmVars,
                  handlerVars, usageVars>>

\* What the serverless handlers never touch.
notHandlerVars == <<facilitatorVars, libraryVars, formatVars, rateVars, keyVars, llmVars,
                   parserVars, usageVars>>

\* What the UsageMonitoringService never touches.
notUsageVars == <<facilitatorVars, libraryVars, formatVars, rateVars, keyVars, llmVars,
                 parserVars, handlerVars>>

appVars == <<selectedGameId, currentView>>
sessionVars == <<timeRemaining, isRunning, currentStep>>
timerVars == <<intervalRef, activeIntervals, nextTimerId>>

NoGame == "null"
TheGame == "game-1"
NoTimer == 0
NoEntry == {}            \* localStorage.getItem returned null

\* The games a session is opened with: a duration in whole minutes (the
\* creation form's field has min="5") and any instruction text; no code
\* between the game list and the facilitator inspects the instructions.
Games == [duration : 1..MaxDuration, instructions : Strings]

totalDurationSeconds == game.duration * SecondsPerMinute
steps == instructionSteps(game)
mounted == currentView = "facilitator" /\ selectedGameId # NoGame

(* ---------------- browser timers ---------------- *)
\* clearInterval(id): cancels the timer with that id, nothing if none.
clearInterval(active, id) == active \ {id}

\* The cleanup function returned by the effect.
effectCleanup(active, ref) ==
  IF ref # NoTimer THEN clearInterval(active, ref) ELSE active

\* The body of the effect when it runs with isRunning = FALSE.
effectStopped(active, ref) ==
  IF ref # NoTimer THEN clearInterval(active, ref) ELSE active

(* ---------------- initial state ---------------- *)
SessionInit ==
  /\ game \in Games
  /\ selectedGameId = NoGame
  /\ currentView = "library"
  /\ timeRemaining = game.duration * SecondsPerMinute
  /\ isRunning = FALSE
  /\ currentStep = 0
  /\ intervalRef = NoTimer
  /\ activeIntervals = {}
  /\ nextTimerId = 1
  /\ completeCount = 0
  /\ lastOp = "init"
  /\ ticks = 0

\* No formatTime call made, nothing in localStorage.
FormatIdle == fmtIn = 0 /\ fmtOut = <<>>
RateIdle == rlNow = 0 /\ rlStore = NoEntry /\ rlAllowed = TRUE /\ rlOp = "init"

NoError == "none"

KeyIdle ==
  /\ akKey = {} /\ akConfig = {} /\ akEnv = {} /\ akNow = 0
  /\ akArg = <<>> /\ akThrew = NoError /\ akResult = {} /\ akOp = "init"

Calls == 1..MaxCalls
NoCall == [call |-> 0, kind |-> "none", step |-> "init", outcome |-> "none"]

LlmIdle ==
  /\ llmNow = 0 /\ llmRequests = <<>> /\ llmStarted = <<>> /\ llmIssued = 0
  /\ llmPc = [c \in Calls |-> "idle"]
  /\ llmKind = [c \in Calls |-> "none"]
  /\ llmLast = NoCall

ParserIdle == stepsIn = <<>> /\ stepsOut = <<>> /\ stepsDone = FALSE

HandlerIdle ==
  hEvent = {} /\ hApiKey = TRUE /\ hPc = "idle" /\ hResponse = {}

\* The first Date.now() of a behaviour of the usage log: later than every
\* event logged before.
logStart == CLEANUP_THRESHOLD + 1

UsageIdle ==
  /\ ulEvents = <<>> /\ ulNow = logStart /\ ulLogged = 0 /\ ulOp = "init"

ServicesIdle == KeyIdle /\ LlmIdle /\ ParserIdle /\ HandlerIdle /\ UsageIdle

\* The library before the games are fetched, on a wide window.
LibraryIdle ==
  /\ games = <<>> /\ filters = [maxDuration |-> 120] /\ currentPage = 1
  /\ itemsPerPage = 6 /\ isLoading = TRUE /\ loadError = FALSE

Init == SessionInit /\ LibraryIdle /\ FormatIdle /\ RateIdle /\ ServicesIdle

\* The facilitator state of the specifications that are not about it: the
\* application as it starts, with one fixed game.
FacilitatorIdle ==
  SessionInit /\ game = [duration |-> 1, instructions |-> <<>>]

SessionIdle == FacilitatorIdle /\ LibraryIdle

(* ---------------- App ---------------- *)
\* What unmounting the facilitator does to the browser timers: React runs
\* the effect's cleanup.
unmountLeak(active, ref) == active
unmountFacilitator(active, ref) == effectCleanup(active, ref)

handleViewDetails ==
  /\ currentView = "library"
  /\ selectedGameId' = TheGame
  /\ currentView' = "detail"
  /\ lastOp' = "viewDetails"
  /\ UNCHANGED <<ticks, otherVars>>
  /\ UNCHANGED <<game, sessionVars, timerVars, completeCount>>

handleBackToLibrary ==
  /\ currentView \in {"detail", "create"}
  /\ selectedGameId' = NoGame
  /\ currentView' = "library"
  /\ lastOp' = "backToLibrary"
  /\ UNCHANGED <<ticks, otherVars>>
  /\ UNCHANGED <<game, sessionVars, timerVars, completeCount>>

\* Mounting GameFacilitator: the useState initialisers and a fresh ref; the
\* effect of the first render runs with isRunning = FALSE and a null ref.
handleStartGameResume ==
  /\ currentView = "detail" /\ selectedGameId # NoGame
  /\ completeCount < MaxCompletions
  /\ currentView' = "facilitator"
  /\ lastOp' = "startGame"
  /\ UNCHANGED <<ticks, otherVars>>
  /\ UNCHANGED <<game, selectedGameId, sessionVars, timerVars, completeCount>>

handleStartGame ==
  /\ currentView = "detail" /\ selectedGameId # NoGame
  /\ completeCount < MaxCompletions
  /\ currentView' = "facilitator"
  /\ timeRemaining' = game.duration * SecondsPerMinute
  /\ isRunning' = FALSE
  /\ currentStep' = 0
  /\ intervalRef' = NoTimer
  /\ lastOp' = "startGame"
  /\ ticks' = 0
  /\ UNCHANGED otherVars
  /\ UNCHANGED <<game, selectedGameId, activeIntervals, nextTimerId, completeCount>>

handleViewChange(view) ==
  /\ currentView' = view
  /\ selectedGameId' = NoGame
  /\ activeIntervals' = IF mounted
                        THEN unmountFacilitator(activeIntervals, intervalRef)
                        ELSE activeIntervals
  /\ currentPage' = 1
  /\ lastOp' = "viewChange"
  /\ UNCHANGED <<ticks, gridVars, notLibraryVars>>
  /\ UNCHANGED <<game, sessionVars, intervalRef, nextTimerId, completeCount>>

onBack ==
  /\ mounted
  /\ currentView' = "detail"
  /\ activeIntervals' = unmountFacilitator(activeIntervals, intervalRef)
  /\ lastOp' = "back"
  /\ UNCHANGED <<ticks, otherVars>>
  /\ UNCHANGED <<game, selectedGameId, sessionVars, intervalRef, nextTimerId,
                 completeCount>>

(* ---------------- GameFacilitator ---------------- *)
\* useEffect(..., [isRunning]) after isRunning changed to running: the
\* previous effect's cleanup, then setInterval.
effectStart ==
  /\ nextTimerId <= MaxTimers
  /\ activeIntervals' =
       effectCleanup(activeIntervals, intervalRef) \cup {nextTimerId}
  /\ intervalRef' = nextTimerId
  /\ nextTimerId' = nextTimerId + 1

\* useEffect(..., [isRunning]) after isRunning changed to FALSE: the previous
\* effect's cleanup, then the else-branch.
effectStopLeak == UNCHANGED timerVars
effectStop ==
  /\ activeIntervals' =
       effectStopped(effectCleanup(activeIntervals, intervalRef), intervalRef)
  /\ UNCHANGED <<intervalRef, nextTimerId>>

toggleTimerRestart ==
  /\ mounted
  /\ isRunning' = ~isRunning
  /\ IF isRunning' THEN effectStart ELSE effectStop
  /\ timeRemaining' = IF isRunning' THEN game.duration * SecondsPerMinute
                                    ELSE timeRemaining
  /\ lastOp' = "toggle"
  /\ UNCHANGED <<ticks, otherVars>>
  /\ UNCHANGED <<game, appVars, currentStep, completeCount>>

toggleTimer ==
  /\ mounted
  /\ isRunning' = ~isRunning
  /\ IF isRunning' THEN effectStart ELSE effectStop
  /\ lastOp' = "toggle"
  /\ UNCHANGED <<ticks, otherVars>>
  /\ UNCHANGED <<game, appVars, timeRemaining, currentStep, completeCount>>

resetTimerAll ==
  /\ mounted
  /\ isRunning' = FALSE
  /\ timeRemaining' = game.duration * SecondsPerMinute
  /\ currentStep' = 0
  /\ IF isRunning THEN effectStop ELSE UNCHANGED timerVars
  /\ lastOp' = "reset"
  /\ ticks' = 0
  /\ UNCHANGED otherVars
  /\ UNCHANGED <<game, appVars, completeCount>>

resetTimer ==
  /\ mounted
  /\ isRunning' = FALSE
  /\ timeRemaining' = game.duration * SecondsPerMinute
  /\ IF isRunning THEN effectStop ELSE UNCHANGED timerVars
  /\ lastOp' = "reset"
  /\ ticks' = 0
  /\ UNCHANGED otherVars
  /\ UNCHANGED <<game, appVars, currentStep, completeCount>>

\* The updater passed to setTimeRemaining by the interval callback.
tickExpiresLate(prev) == prev < 1
tickExpires(prev) == prev <= 1

tickUpdaterNoFloor(prev) == prev - 1
tickUpdaterDouble(prev) == IF tickExpires(prev) THEN 0 ELSE prev - 2
tickUpdater(prev) == IF tickExpires(prev) THEN 0 ELSE prev - 1

\* The timers left scheduled by an expiring tick: clearInterval in the
\* updater, then, when setIsRunning(false) changed isRunning, the effect's
\* cleanup and else-branch.
tickExpiryLeak(active, ref, running) == active
tickExpiry(active, ref, running) ==
  LET cleared == clearInterval(active, ref)
  IN IF running
     THEN effectStopped(effectCleanup(cleared, ref), ref)
     ELSE cleared

\* The interval callback of a scheduled timer.  A state update of an
\* unmounted component is dropped by React.
tick ==
  /\ \E id \in activeIntervals :
       IF mounted
       THEN /\ timeRemaining' = tickUpdater(timeRemaining)
            /\ IF tickExpires(timeRemaining)
               THEN /\ isRunning' = FALSE
                    /\ activeIntervals' =
                         tickExpiry(activeIntervals, intervalRef, isRunning)
               ELSE UNCHANGED <<isRunning, activeIntervals>>
       ELSE UNCHANGED <<timeRemaining, isRunning, activeIntervals>>
  /\ lastOp' = "tick"
  /\ ticks' = IF mounted THEN ticks + 1 ELSE ticks
  /\ UNCHANGED otherVars
  /\ UNCHANGED <<game, appVars, currentStep, intervalRef, nextTimerId,
                 completeCount>>

prevStepNoFloor ==
  /\ mounted
  /\ currentStep' = currentStep - 1
  /\ lastOp' = "prev"
  /\ UNCHANGED <<ticks, otherVars>>
  /\ UNCHANGED <<game, appVars, timeRemaining, isRunning, timerVars,
                 completeCount>>

prevStep ==
  /\ mounted
  /\ currentStep' = IF currentStep > 0 THEN currentStep - 1 ELSE currentStep
  /\ lastOp' = "prev"
  /\ UNCHANGED <<ticks, otherVars>>
  /\ UNCHANGED <<game, appVars, timeRemaining, isRunning, timerVars,
                 completeCount>>

\* handleCompleteGame, the onComplete prop: back to the detail view, which
\* unmounts the facilitator.
handleCompleteGame ==
  /\ completeCount' = completeCount + 1
  /\ currentView' = "detail"
  /\ activeIntervals' = unmountFacilitator(activeIntervals, intervalRef)
  /\ UNCHANGED <<selectedGameId, currentStep>>

isLastStepOffByOne(cur, n) == ~(cur < n)
isLastStep(cur, n) == ~(cur < n - 1)

nextStep ==
  /\ mounted
  /\ IF ~isLastStep(currentStep, Len(steps))
     THEN /\ currentStep' = currentStep + 1
          /\ UNCHANGED <<appVars, activeIntervals, completeCount>>
     ELSE handleCompleteGame
  /\ lastOp' = "next"
  /\ UNCHANGED <<ticks, otherVars>>
  /\ UNCHANGED <<game, timeRemaining, isRunning, intervalRef, nextTimerId>>

Next ==
  \/ handleViewDetails
  \/ handleBackToLibrary
  \/ handleStartGame
  \/ \E view \in {"library", "create", "favorites"} : handleViewChange(view)
  \/ onBack
  \/ toggleTimer
  \/ resetTimer
  \/ tick
  \/ prevStep
  \/ nextStep

Spec == Init /\ [][Next]_vars

(* ---------------- GameFacilitator: derived presentation ---------------- *)
\* (timeRemaining / (game.duration * 60)) * 100 > pct.  The quotient of two
\* whole numbers of seconds times 100 is compared exactly: the doubles for
\* the fractions 1/2 and 1/5 times 100 are exactly 50 and 20.
percentLeftAbove(t, g, pct) == t * 100 > pct * (g.duration * SecondsPerMinute)

getTimerColorInclusive(t, g) ==
  IF t * 100 >= 50 * (g.duration * SecondsPerMinute) THEN "text-teal-600"
  ELSE IF t * 100 >= 20 * (g.duration * SecondsPerMinute) THEN "text-amber-500"
  ELSE "text-red-600"

getTimerColor(t, g) ==
  IF percentLeftAbove(t, g, 50) THEN "text-teal-600"
  ELSE IF percentLeftAbove(t, g, 20) THEN "text-amber-500"
  ELSE "text-red-600"

getProgressColor(t, g) ==
  IF percentLeftAbove(t, g, 50) THEN "bg-gradient-to-r from-teal-500 to-teal-600"
  ELSE IF percentLeftAbove(t, g, 20) THEN "bg-gradient-to-r from-amber-500 to-amber-600"
  ELSE "bg-gradient-to-r from-red-500 to-red-600"

(* ---------------- formatTime ---------------- *)
Digits == <<"0", "1", "2", "3", "4", "5", "6", "7", "8", "9">>

\* Number.prototype.toString of a non-negative integer
RECURSIVE toString(_)
toString(n) ==
  IF n < 10 THEN <<Digits[n + 1]>>
  ELSE toString(n \div 10) \o <<Digits[(n % 10) + 1]>>

\* String.prototype.padStart(targetLength, padString) with a one-character pad
padStart(str, targetLength, pad) ==
  IF Len(str) >= targetLength THEN str
  ELSE [i \in 1..(targetLength - Len(str)) |-> pad] \o str

formatTimeClamped(timeInSeconds) ==
  padStart(toString((timeInSeconds \div 60) % 60), 2, "0") \o <<":">>
    \o padStart(toString(timeInSeconds % 60), 2, "0")

formatTime(timeInSeconds) ==
  LET minutes == timeInSeconds \div 60
      seconds == timeInSeconds % 60
  IN padStart(toString(minutes), 2, "0") \o <<":">>
       \o padStart(toString(seconds), 2, "0")

InitFormat ==
  /\ fmtIn \in 0..MaxFormatSeconds
  /\ fmtOut = <<>>
  /\ SessionIdle
  /\ RateIdle
  /\ ServicesIdle

\* The render that shows formatTime(timeRemaining).
renderTime ==
  /\ fmtOut = <<>>
  /\ fmtOut' = formatTime(fmtIn)
  /\ UNCHANGED <<fmtIn, facilitatorVars, libraryVars, rateVars, serviceVars>>

NextFormat == renderTime

SpecFormat == InitFormat /\ [][NextFormat]_vars

(* ---------------- RateLimitService ---------------- *)
\* The clock advances in thirds of a window, so that a call can fall
\* inside a window, exactly on its resetTime and after it.
ClockStep == windowMs \div 3

\* parsed.count || 0 and parsed.resetTime || Date.now() + windowMs; the
\* default entry when nothing is stored.
getRateLimitEntry(store, now) ==
  IF store # NoEntry
  THEN LET parsed == CHOOSE e \in store : TRUE
       IN [count |-> IF parsed.count # 0 THEN parsed.count ELSE 0,
           resetTime |-> IF parsed.resetTime # 0 THEN parsed.resetTime
                                                 ELSE now + windowMs]
  ELSE [count |-> 0, resetTime |-> now + windowMs]

\* localStorage after saveRateLimitEntry(entry)
saveRateLimitEntry(entry) == {entry}

\* localStorage after resetRateLimit(now)
resetRateLimit(now) ==
  saveRateLimitEntry([count |-> 0, resetTime |-> now + windowMs])

windowExpired(now, entry) == now >= entry.resetTime

underLimitInclusive(entry) == entry.count <= maxRequests
underLimit(entry) == entry.count < maxRequests

isRequestAllowed ==
  /\ LET entry == getRateLimitEntry(rlStore, rlNow)
     IN IF windowExpired(rlNow, entry)
        THEN /\ rlStore' = resetRateLimit(rlNow)
             /\ rlAllowed' = TRUE
        ELSE /\ rlStore' = rlStore
             /\ rlAllowed' = underLimit(entry)
  /\ rlOp' = "isRequestAllowed"
  /\ UNCHANGED <<rlNow, facilitatorVars, libraryVars, formatVars,
                 serviceVars>>

recordRequest ==
  /\ LET stored == getRateLimitEntry(rlStore, rlNow)
         entry == IF windowExpired(rlNow, stored)
                  THEN [count |-> 0, resetTime |-> rlNow + windowMs]
                  ELSE stored
     IN /\ entry.count < maxRequests + MaxOverLimit
        /\ rlStore' = saveRateLimitEntry(
                        [count |-> entry.count + 1, resetTime |-> entry.resetTime])
  /\ rlOp' = "recordRequest"
  /\ UNCHANGED <<rlNow, rlAllowed, facilitatorVars, libraryVars, formatVars,
                 serviceVars>>

rateLimitReset ==
  /\ rlStore' = resetRateLimit(rlNow)
  /\ rlOp' = "reset"
  /\ UNCHANGED <<rlNow, rlAllowed, facilitatorVars, libraryVars, formatVars,
                 serviceVars>>

\* Time passes between two calls.
advanceClock ==
  /\ rlNow < MaxClockSteps * ClockStep
  /\ rlNow' = rlNow + ClockStep
  /\ rlOp' = "advanceClock"
  /\ UNCHANGED <<rlStore, rlAllowed, facilitatorVars, libraryVars, formatVars,
                 serviceVars>>

InitRate == SessionIdle /\ FormatIdle /\ RateIdle /\ ServicesIdle

NextRate ==
  \/ isRequestAllowed
  \/ recordRequest
  \/ rateLimitReset
  \/ advanceClock

SpecRateLimit == InitRate /\ [][NextRate]_vars

(* ---------------- GameFacilitator: the derivation of the steps ---------------- *)
Texts == UNION {[1..n -> Chars] : n \in 0..MaxTextLen}

InitParser ==
  /\ stepsIn \in Texts
  /\ stepsOut = <<>> /\ stepsDone = FALSE
  /\ SessionIdle /\ FormatIdle /\ RateIdle /\ KeyIdle /\ LlmIdle
  /\ HandlerIdle /\ UsageIdle

\* The render that computes instructionSteps from game.instructions.
parseInstructions ==
  /\ ~stepsDone
  /\ stepsOut' = instructionSteps([duration |-> 1, instructions |-> stepsIn])
  /\ stepsDone' = TRUE
  /\ UNCHANGED <<stepsIn, notParserVars>>

NextParser == parseInstructions

SpecParser == InitParser /\ [][NextParser]_vars

(* ---------------- Netlify functions ---------------- *)
Functions == {"generateGameData", "generateCompleteGame"}
HttpMethods == {"GET", "HEAD", "POST", "PUT", "PATCH", "DELETE", "OPTIONS"}

\* event.body: whether JSON.parse accepts it and which of the two
\* parameters it carries (partialGameData or userPrompt, and systemPrompt).
Bodies ==
  {[json |-> FALSE, first |-> FALSE, systemPrompt |-> FALSE]}
    \cup [json : {TRUE}, first : BOOLEAN, systemPrompt : BOOLEAN]

\* What hf.textGeneration can do: reject, answer without generated_text,
\* answer with text that is not JSON, answer with JSON.
Generations == {"rejects", "no-text", "not-json", "json"}

methodNotAllowed ==
  [statusCode |-> 405, body |-> "{\"error\":\"Method not allowed\"}"]
preflight == [statusCode |-> 200, body |-> ""]
notConfigured ==
  [statusCode |-> 500,
   body |-> "{\"error\":\"LLM service is not configured. Please check server configuration.\"}"]
missingParameters(fn) ==
  [statusCode |-> 400,
   body |-> IF fn = "generateGameData"
            THEN "{\"error\":\"Missing required parameters: partialGameData and systemPrompt\"}"
            ELSE "{\"error\":\"Missing required parameters: userPrompt and systemPrompt\"}"]
failed(fn) ==
  [statusCode |-> 500,
   body |-> IF fn = "generateGameData"
            THEN "{\"error\":\"Failed to generate game data. Please try again.\"}"
            ELSE "{\"error\":\"Failed to generate game suggestion. Please try again.\"}"]
generated == [statusCode |-> 200, body |-> "{\"data\":{}}"]

\* exports.handler up to its first return or to the await of the LLM call.
handlerInvoke(fn, method, body) ==
  /\ hPc # "awaiting"
  /\ hEvent' = {[fn |-> fn, httpMethod |-> method, body |-> body]}
  /\ IF method # "POST"
     THEN hResponse' = {methodNotAllowed} /\ hPc' = "done"
     ELSE IF method = "OPTIONS"
     THEN hResponse' = {preflight} /\ hPc' = "done"
     ELSE IF ~hApiKey
     THEN hResponse' = {notConfigured} /\ hPc' = "done"
     ELSE IF ~body.json
     THEN hResponse' = {failed(fn)} /\ hPc' = "done"
     ELSE IF ~body.first \/ ~body.systemPrompt
     THEN hResponse' = {missingParameters(fn)} /\ hPc' = "done"
     ELSE hResponse' = {} /\ hPc' = "awaiting"
  /\ UNCHANGED <<hApiKey, notHandlerVars>>

\* exports.handler after hf.textGeneration has settled.
handlerResume(generation) ==
  /\ hPc = "awaiting"
  /\ hResponse' = IF generation = "json" THEN {generated}
                  ELSE {failed((CHOOSE e \in hEvent : TRUE).fn)}
  /\ hPc' = "done"
  /\ UNCHANGED <<hEvent, hApiKey, notHandlerVars>>

InitHandler ==
  /\ hApiKey \in BOOLEAN
  /\ hEvent = {} /\ hPc = "idle" /\ hResponse = {}
  /\ SessionIdle /\ FormatIdle /\ RateIdle /\ KeyIdle /\ LlmIdle /\ ParserIdle
  /\ UsageIdle

NextHandler ==
  \/ \E fn \in Functions, method \in HttpMethods, body \in Bodies :
       handlerInvoke(fn, method, body)
  \/ \E generation \in Generations : handlerResume(generation)

SpecHandler == InitHandler /\ [][NextHandler]_vars

(* ---------------- UsageMonitoringService ---------------- *)
\* Array.prototype.sort((a, b) => b.timestamp - a.timestamp): newest first,
\* events of equal timestamp in their former order.
sortNewestFirst(events) ==
  SortSeq(events, LAMBDA a, b : a.timestamp > b.timestamp)

\* Array.prototype.slice(0, end)
slice(events, end) ==
  SubSeq(events, 1, IF Len(events) < end THEN Len(events) ELSE end)

\* The array addEvent saves.
savedEventsOldest(events) ==
  IF Len(events) > CLEANUP_THRESHOLD
  THEN slice(SortSeq(events, LAMBDA a, b : a.timestamp < b.timestamp),
             MAX_LOG_ENTRIES)
  ELSE events

savedEvents(events) ==
  IF Len(events) > CLEANUP_THRESHOLD
  THEN slice(sortNewestFirst(events), MAX_LOG_ENTRIES)
  ELSE events

\* Date.now() of a call: the millisecond of the call before, or a later one.
Elapsed == {0, 1}

addEvent(type) ==
  /\ ulLogged < MaxAppends
  /\ \E elapsed \in Elapsed :
       /\ ulNow' = ulNow + elapsed
       /\ ulEvents' = savedEvents(Append(ulEvents,
                                         [timestamp |-> ulNow', type |-> type]))
  /\ ulLogged' = ulLogged + 1
  /\ UNCHANGED notUsageVars

logAPICall == addEvent("api_call") /\ ulOp' = "logAPICall"
logError == addEvent("error") /\ ulOp' = "logError"
logRateLimit == addEvent("rate_limit") /\ ulOp' = "logRateLimit"
logKeyChange == addEvent("key_change") /\ ulOp' = "logKeyChange"

clearUsageData ==
  /\ ulEvents # <<>>
  /\ ulEvents' = <<>>
  /\ ulOp' = "clearUsageData"
  /\ UNCHANGED <<ulNow, ulLogged, notUsageVars>>

\* The sizes the log starts with: empty, one below the threshold and at it.
InitialLogSizes == {0, CLEANUP_THRESHOLD - 1, CLEANUP_THRESHOLD}

\* The service after construction and k earlier logAPICall calls, one per
\* millisecond.
InitUsage ==
  /\ \E k \in InitialLogSizes :
       ulEvents = [i \in 1..k |-> [timestamp |-> i, type |-> "api_call"]]
  /\ ulNow = logStart /\ ulLogged = 0 /\ ulOp = "init"
  /\ SessionIdle /\ FormatIdle /\ RateIdle /\ KeyIdle /\ LlmIdle /\ ParserIdle
  /\ HandlerIdle

NextUsage ==
  \/ logAPICall
  \/ logError
  \/ logRateLimit
  \/ logKeyChange
  \/ clearUsageData

SpecUsage == InitUsage /\ [][NextUsage]_vars

(* ---------------- App: the library and its pagination ---------------- *)
\* window.innerWidth on either side of the breakpoint
Widths == {767, 768}

getItemsPerPage(innerWidth) == IF innerWidth < 768 THEN 3 ELSE 6

\* The values of the 'Max Duration' range input (min 15, max 120, step 5)
SliderValues == {15 + 5 * k : k \in 0..21}

\* The rows the database returns: n games, the i-th lasting 15 * i minutes.
fetched(n) == [i \in 1..n |-> [id |-> i, duration |-> 15 * i]]

\* games.filter(...) with every filter but maxDuration at its default
filteredGames ==
  SelectSeq(games, LAMBDA g : ~(g.duration > filters.maxDuration))

\* Math.ceil(filteredGames.length / itemsPerPage)
totalPages == (Len(filteredGames) + itemsPerPage - 1) \div itemsPerPage

startIndex == (currentPage - 1) * itemsPerPage

\* filteredGames.slice(startIndex, startIndex + itemsPerPage)
paginatedGames ==
  SubSeq(filteredGames, startIndex + 1,
         IF startIndex + itemsPerPage < Len(filteredGames)
         THEN startIndex + itemsPerPage ELSE Len(filteredGames))

gridShown == currentView = "library" /\ ~isLoading /\ ~loadError
paginationShown == gridShown /\ Len(filteredGames) > itemsPerPage

fetchGamesResolves(n) ==
  /\ isLoading
  /\ games' = fetched(n)
  /\ isLoading' = FALSE
  /\ UNCHANGED <<filters, itemsPerPage, loadError, currentPage,
                 facilitatorVars, notLibraryVars>>

fetchGamesFails ==
  /\ isLoading
  /\ loadError' = TRUE
  /\ isLoading' = FALSE
  /\ UNCHANGED <<games, filters, itemsPerPage, currentPage,
                 facilitatorVars, notLibraryVars>>

handleResize(innerWidth) ==
  /\ itemsPerPage' = getItemsPerPage(innerWidth)
  /\ UNCHANGED <<games, filters, isLoading, loadError, currentPage,
                 facilitatorVars, notLibraryVars>>

\* onFilterChange={setFilters}, from the 'Max Duration' input
updateMaxDuration(value) ==
  /\ currentView \in {"library", "favorites"}
  /\ filters' = [filters EXCEPT !.maxDuration = value]
  /\ UNCHANGED <<games, itemsPerPage, isLoading, loadError, currentPage,
                 facilitatorVars, notLibraryVars>>

previousPage ==
  /\ paginationShown
  /\ currentPage # 1
  /\ currentPage' = IF currentPage - 1 > 1 THEN currentPage - 1 ELSE 1
  /\ UNCHANGED <<gridVars, facilitatorVars, notLibraryVars>>

nextPage ==
  /\ paginationShown
  /\ currentPage # totalPages
  /\ currentPage' = IF totalPages < currentPage + 1 THEN totalPages
                    ELSE currentPage + 1
  /\ UNCHANGED <<gridVars, facilitatorVars, notLibraryVars>>

handleSaveGame(duration) ==
  /\ currentView = "create"
  /\ Len(games) < MaxGames
  /\ games' = Append(games, [id |-> Len(games) + 1, duration |-> duration])
  /\ currentView' = "library"
  /\ lastOp' = "saveGame"
  /\ UNCHANGED <<filters, itemsPerPage, isLoading, loadError, currentPage>>
  /\ UNCHANGED <<game, selectedGameId, sessionVars, timerVars, completeCount,
                 ticks, notLibraryVars>>

InitLibrary ==
  /\ games = <<>> /\ filters = [maxDuration |-> 120] /\ currentPage = 1
  /\ itemsPerPage \in {getItemsPerPage(w) : w \in Widths}
  /\ isLoading = TRUE /\ loadError = FALSE
  /\ FacilitatorIdle /\ FormatIdle /\ RateIdle /\ ServicesIdle

NextLibrary ==
  \/ \E n \in 0..MaxGames : fetchGamesResolves(n)
  \/ fetchGamesFails
  \/ \E innerWidth \in Widths : handleResize(innerWidth)
  \/ \E value \in SliderValues : updateMaxDuration(value)
  \/ previousPage
  \/ nextPage
  \/ \E view \in {"library", "create", "favorites"} : handleViewChange(view)
  \/ handleBackToLibrary
  \/ \E duration \in {15, 60} : handleSaveGame(duration)

SpecLibrary == InitLibrary /\ [][NextLibrary]_vars

(* ---------------- APIKeyService ---------------- *)
\* The keys a caller passes: optional surrounding blanks, a prefix and a
\* body that is empty or puts the key's length around the required one.
Blanks == {<<>>, <<" ">>}
KeyPrefixes == {<<>>, <<"h", "f", "_">>, <<"x", "f", "_">>}
KeyBody(n) == [i \in 1..n |-> "x"]
KeyBodyLengths == {0} \cup ((MaxKeyBody - 2)..MaxKeyBody)
KeyInputs ==
  {l \o p \o KeyBody(n) \o r :
     l \in Blanks, p \in KeyPrefixes, n \in KeyBodyLengths, r \in Blanks}

\* What the environment holds: nothing, an empty value or a token.
EnvKey == <<"h", "f", "_", "e", "n", "v">>
EnvValues == {{}, {<<>>}, {EnvKey}}

\* String.prototype.startsWith
startsWith(str, prefix) ==
  Len(str) >= Len(prefix) /\ SubSeq(str, 1, Len(prefix)) = prefix

validateAPIKey(key) ==
  IF key = <<>> THEN FALSE
  ELSE LET trimmed == trim(key)
       IN Len(trimmed) > 10 /\ startsWith(trimmed, <<"h", "f", "_">>)

setUserProvidedKey(apiKey) ==
  /\ akArg' = apiKey
  /\ IF ~validateAPIKey(apiKey)
     THEN /\ akThrew' = "Invalid API key format"
          /\ UNCHANGED <<akKey, akConfig>>
     ELSE /\ akThrew' = NoError
          /\ akKey' = {apiKey}
          /\ akConfig' = {[createdAt |-> akNow, lastUsed |-> {}]}
  /\ akResult' = {}
  /\ akOp' = "setUserProvidedKey"
  /\ UNCHANGED <<akEnv, akNow, notKeyVars>>

clearUserProvidedKeyKeepConfig ==
  /\ akKey' = {}
  /\ akConfig' = akConfig

clearUserProvidedKeyStorage ==
  /\ akKey' = {}
  /\ akConfig' = {}

clearUserProvidedKey ==
  /\ clearUserProvidedKeyStorage
  /\ akThrew' = NoError
  /\ akResult' = {}
  /\ akOp' = "clearUserProvidedKey"
  /\ UNCHANGED <<akEnv, akNow, akArg, notKeyVars>>

\* getUserProvidedKey() is truthy: a stored, non-empty string
hasUserProvidedKey == \E k \in akKey : k # <<>>

updateLastUsed ==
  /\ IF hasUserProvidedKey /\ akConfig # {}
     THEN akConfig' = {[c EXCEPT !.lastUsed = {akNow}] : c \in akConfig}
     ELSE akConfig' = akConfig
  /\ akThrew' = NoError
  /\ akResult' = {}
  /\ akOp' = "updateLastUsed"
  /\ UNCHANGED <<akKey, akEnv, akNow, akArg, notKeyVars>>

\* getUserKeyCreationDate / getUserKeyLastUsed
getUserKeyCreationDate ==
  IF akConfig # {} THEN (CHOOSE c \in akConfig : TRUE).createdAt ELSE akNow
getUserKeyLastUsed ==
  IF akConfig # {} THEN (CHOOSE c \in akConfig : TRUE).lastUsed ELSE {}

apiKeyConfigEnvFirst ==
  IF \E e \in akEnv : e # <<>>
  THEN {[key |-> e, source |-> "environment", createdAt |-> akNow,
         lastUsed |-> {}] : e \in akEnv}
  ELSE {[key |-> k, source |-> "user-provided",
         createdAt |-> getUserKeyCreationDate,
         lastUsed |-> getUserKeyLastUsed] : k \in {u \in akKey : u # <<>>}}

\* The value getAPIKeyConfig returns: no element for null.
apiKeyConfig ==
  IF hasUserProvidedKey
  THEN {[key |-> k, source |-> "user-provided",
         createdAt |-> getUserKeyCreationDate,
         lastUsed |-> getUserKeyLastUsed] : k \in akKey}
  ELSE IF \E e \in akEnv : e # <<>>
       THEN {[key |-> e, source |-> "environment", createdAt |-> akNow,
              lastUsed |-> {}] : e \in akEnv}
       ELSE {}

getAPIKeyConfig ==
  /\ akResult' = apiKeyConfig
  /\ akThrew' = NoError
  /\ akOp' = "getAPIKeyConfig"
  /\ UNCHANGED <<akKey, akConfig, akEnv, akNow, akArg, notKeyVars>>

\* Time passes between two calls.
keyClockAdvance ==
  /\ akNow < MaxKeyClock
  /\ akNow' = akNow + 1
  /\ akOp' = "advanceClock"
  /\ UNCHANGED <<akKey, akConfig, akEnv, akArg, akThrew, akResult, notKeyVars>>

InitKey ==
  /\ akEnv \in EnvValues
  /\ akKey = {} /\ akConfig = {} /\ akNow = 0
  /\ akArg = <<>> /\ akThrew = NoError /\ akResult = {} /\ akOp = "init"
  /\ SessionIdle /\ FormatIdle /\ RateIdle /\ LlmIdle /\ ParserIdle
  /\ HandlerIdle /\ UsageIdle

NextKey ==
  \/ \E apiKey \in KeyInputs : setUserProvidedKey(apiKey)
  \/ clearUserProvidedKey
  \/ updateLastUsed
  \/ getAPIKeyConfig
  \/ keyClockAdvance

SpecKey == InitKey /\ [][NextKey]_vars

(* ---------------- LLMService and its RateLimiter ---------------- *)
timeWindow == timeWindowMinutes * 60 * 1000

\* this.requests.filter((time) => now - time < this.timeWindow)
RECURSIVE filterRecent(_, _)
filterRecent(requests, now) ==
  IF requests = <<>> THEN <<>>
  ELSE IF now - Head(requests) < timeWindow
       THEN <<Head(requests)>> \o filterRecent(Tail(requests), now)
       ELSE filterRecent(Tail(requests), now)

\* The result of canMakeRequest() on the filtered list
canMakeRequestInclusive(requests) == Len(requests) <= llmMaxRequests
canMakeRequest(requests) == Len(requests) < llmMaxRequests

\* getRemainingRequests()
getRemainingRequests(requests, now) ==
  LET left == llmMaxRequests - Len(filterRecent(requests, now))
  IN IF left > 0 THEN left ELSE 0

Methods == {"generateGameData", "generateCompleteGame"}

\* How a fetch that resolves can turn out: a good answer, a status that is
\* not ok, a body without 'data', data that is not a game.
Responses == {"ok", "not-ok", "no-data", "invalid-game"}

\* generateGameData / generateCompleteGame up to the await of fetch:
\* checkRateLimit() throws RateLimitError or the request is sent.
generateStart(c, method) ==
  /\ llmPc[c] = "idle"
  /\ llmIssued < MaxFetches
  /\ LET recent == filterRecent(llmRequests, llmNow)
     IN /\ llmRequests' = recent
        /\ IF ~canMakeRequest(recent)
           THEN /\ llmLast' = [call |-> c, kind |-> method, step |-> "start",
                               outcome |-> "RateLimitError"]
                /\ UNCHANGED <<llmPc, llmKind, llmStarted, llmIssued>>
           ELSE /\ llmLast' = [call |-> c, kind |-> method, step |-> "start",
                               outcome |-> "pending"]
                /\ llmPc' = [llmPc EXCEPT ![c] = "fetching"]
                /\ llmKind' = [llmKind EXCEPT ![c] = method]
                /\ llmStarted' = Append(llmStarted, llmNow)
                /\ llmIssued' = llmIssued + 1
  /\ UNCHANGED <<llmNow, notLlmVars>>

\* What the rate limiter holds after a fetch has resolved.
afterFetch(requests, now) == Append(requests, now)

\* The fetch resolves: recordRequest(), then the checks of the response.
fetchResolves(c, response) ==
  /\ llmPc[c] = "fetching"
  /\ llmRequests' = afterFetch(llmRequests, llmNow)
  /\ llmLast' = [call |-> c, kind |-> llmKind[c], step |-> "resolve",
                 outcome |-> IF response = "ok" THEN "ok" ELSE "Error"]
  /\ llmPc' = [llmPc EXCEPT ![c] = "idle"]
  /\ llmKind' = [llmKind EXCEPT ![c] = "none"]
  /\ UNCHANGED <<llmNow, llmStarted, llmIssued, notLlmVars>>

\* The fetch rejects (network failure): the catch block wraps the error.
fetchRejects(c) ==
  /\ llmPc[c] = "fetching"
  /\ llmLast' = [call |-> c, kind |-> llmKind[c], step |-> "reject",
                 outcome |-> "Error"]
  /\ llmPc' = [llmPc EXCEPT ![c] = "idle"]
  /\ llmKind' = [llmKind EXCEPT ![c] = "none"]
  /\ UNCHANGED <<llmNow, llmRequests, llmStarted, llmIssued, notLlmVars>>

\* Time passes: half a window at a time.
llmClockAdvance ==
  /\ llmNow < MaxLlmClock * (timeWindow \div 2)
  /\ llmNow' = llmNow + (timeWindow \div 2)
  /\ llmLast' = NoCall
  /\ UNCHANGED <<llmRequests, llmPc, llmKind, llmStarted, llmIssued, notLlmVars>>

\* The service after construction and any number of calls, up to the
\* limit, that were made one after the other at time 0 and succeeded.
InitLlm ==
  /\ \E k \in 0..llmMaxRequests :
       /\ llmRequests = [i \in 1..k |-> 0]
       /\ llmStarted = [i \in 1..k |-> 0]
  /\ llmNow = 0 /\ llmIssued = 0
  /\ llmPc = [c \in Calls |-> "idle"]
  /\ llmKind = [c \in Calls |-> "none"]
  /\ llmLast = NoCall
  /\ SessionIdle /\ FormatIdle /\ RateIdle /\ KeyIdle /\ ParserIdle
  /\ HandlerIdle /\ UsageIdle

NextLlm ==
  \/ \E c \in Calls, method \in Methods : generateStart(c, method)
  \/ \E c \in Calls, response \in Responses : fetchResolves(c, response)
  \/ \E c \in Calls : fetchRejects(c)
  \/ llmClockAdvance

SpecLlm == InitLlm /\ [][NextLlm]_vars

\* An uninterrupted countdown: the facilitator is opened, the timer is
\* started and nothing but the interval callback runs.  The browser keeps
\* delivering the callbacks of a scheduled interval.
startTimer == ~isRunning /\ toggleTimer

NextCountdown ==
  \/ handleViewDetails
  \/ handleStartGame
  \/ startTimer
  \/ tick

SpecCountdown == Init /\ [][NextCountdown]_vars /\ WF_vars(tick)

TypeOK ==
  /\ game \in Games
  /\ selectedGameId \in {NoGame, TheGame}
  /\ currentView \in {"library", "create", "favorites", "detail", "facilitator"}
  /\ timeRemaining \in Int
  /\ isRunning \in BOOLEAN
  /\ currentStep \in Nat
  /\ intervalRef \in {NoTimer} \cup 1..MaxTimers
  /\ activeIntervals \subseteq 1..MaxTimers
  /\ nextTimerId \in 1..(MaxTimers + 1)
  /\ completeCount \in 0..MaxCompletions
  /\ ticks \in Nat

(* ======================= claims ======================= *)

C2_StepInRange ==
  mounted => (0 <= currentStep /\ currentStep < Len(steps))

\* C3: the timer is never running while the remaining time is 0.
C3_NotRunningAtZero ==
  (mounted /\ timeRemaining = 0) => ~isRunning

\* C4: start (toggleTimer while not running) at remaining time 0 changes
\* neither the remaining time, nor isRunning, nor the scheduled timers.
C4_StartAtZeroNoOp ==
  [][(toggleTimer /\ ~isRunning /\ timeRemaining = 0)
       => UNCHANGED <<timeRemaining, isRunning, activeIntervals>>]_vars

\* C5: reset, from any timer state, leaves the full duration on the clock,
\* the timer stopped and no timer scheduled; and no tick changes the session
\* while the timer is stopped, that is until the next start.
C5_ResetTotal ==
  [][/\ resetTimer => /\ timeRemaining' = totalDurationSeconds'
                      /\ ~isRunning'
                      /\ activeIntervals' = {}
     /\ (~isRunning /\ lastOp' = "tick") => UNCHANGED sessionVars]_vars

\* A reset of a session whose timer had been started and had counted down.
C5_Witness ==
  /\ mounted /\ lastOp = "reset" /\ intervalRef # NoTimer
  /\ timeRemaining = totalDurationSeconds /\ ~isRunning
  /\ activeIntervals = {}

\* C6: the tick that brings the remaining time to 0 stops the timer in the
\* same step, no later tick changes the remaining time, and it stays 0
\* until a reset (or a new session).
C6_TerminalZero ==
  [][/\ (lastOp' = "tick" /\ timeRemaining' = 0) => ~isRunning'
     /\ (lastOp' = "tick" /\ timeRemaining = 0) => timeRemaining' = 0
     /\ (timeRemaining = 0 /\ timeRemaining' # 0)
          => lastOp' \in {"reset", "startGame"}]_vars

\* The expiring tick of the first countdown has just been delivered.
C6_Witness ==
  /\ mounted /\ lastOp = "tick" /\ timeRemaining = 0 /\ ~isRunning
  /\ nextTimerId = 2

\* C7: while the timer is running every tick decreases the remaining time
\* by exactly 1.
C7_TickDecrements ==
  [][(lastOp' = "tick" /\ mounted /\ isRunning)
       => timeRemaining' = timeRemaining - 1]_vars

\* C8: at most one repeating timer is scheduled; exactly the one held in
\* intervalRef while the timer is running and none while it is not.
C8_OneTimer ==
  /\ Cardinality(activeIntervals) <= 1
  /\ (mounted /\ isRunning) => activeIntervals = {intervalRef}
  /\ (mounted /\ ~isRunning) => activeIntervals = {}

\* The countdown has expired after a pause and a second start: a second
\* timer was scheduled and the expiry cancelled it.
C8_Witness ==
  /\ mounted /\ lastOp = "tick" /\ ~isRunning /\ timeRemaining = 0
  /\ intervalRef = 2 /\ activeIntervals = {}

\* C9: once the facilitator is unmounted no timer stays scheduled, no tick
\* fires and the session state no longer changes.
C9_NoLeakAfterDispose ==
  /\ [](~mounted => activeIntervals = {})
  /\ [][~mounted => /\ lastOp' # "tick"
                    /\ ~mounted' => UNCHANGED sessionVars]_vars

\* The facilitator was left through the back button while running.
C9_Witness ==
  /\ ~mounted /\ lastOp = "back" /\ isRunning /\ intervalRef # NoTimer
  /\ activeIntervals = {}

\* C10: next below the last index advances the cursor by 1 without calling
\* onComplete; next at the last index keeps the cursor and calls onComplete
\* exactly once.
C10_NextStep ==
  [][lastOp' = "next"
       => IF currentStep < Len(steps) - 1
          THEN currentStep' = currentStep + 1 /\ completeCount' = completeCount
          ELSE currentStep' = currentStep /\ completeCount' = completeCount + 1]_vars

\* A two-step activity: next advanced 0 -> 1, then next at the last index
\* signalled completion.
C10_Witness ==
  /\ lastOp = "next" /\ Len(steps) = 2 /\ currentStep = 1
  /\ completeCount = 1 /\ currentView = "detail"

\* C11: previous moves the cursor back by exactly 1 above index 0 and leaves
\* it at 0 at index 0; it never signals completion or leaves the session.
C11_PrevStep ==
  [][lastOp' = "prev"
       => /\ currentStep' = IF currentStep > 0 THEN currentStep - 1 ELSE 0
          /\ currentStep' >= 0
          /\ completeCount' = completeCount
          /\ mounted']_vars

\* previous at index 0 of a one-step activity.
C11_Witness ==
  /\ mounted /\ lastOp = "prev" /\ Len(steps) = 1 /\ currentStep = 0
  /\ completeCount = 0

\* C12: pausing twice in a row gives the same state as pausing once: the
\* pause handler called again right after a pause changes nothing.
C12_PauseIdempotent ==
  [][(mounted /\ lastOp = "toggle" /\ ~isRunning /\ lastOp' = "toggle")
       => UNCHANGED <<timeRemaining, isRunning, currentStep, activeIntervals>>]_vars

\* C13: a pause stops the timer and keeps the remaining time, a start keeps
\* it too, so that after k + m < total ticks in all the remaining time is
\* total - k - m however the ticks are split by pauses.
C13_PauseResume ==
  /\ []((mounted /\ ticks < totalDurationSeconds)
          => timeRemaining = totalDurationSeconds - ticks)
  /\ [][(lastOp' = "toggle" /\ isRunning)
          => (~isRunning' /\ timeRemaining' = timeRemaining
              /\ activeIntervals' = {})]_vars
  /\ [][(lastOp' = "toggle" /\ ~isRunning)
          => (isRunning' /\ timeRemaining' = timeRemaining)]_vars

\* Two ticks in all, the last one delivered by the timer of the second start.
C13_Witness ==
  /\ mounted /\ lastOp = "tick" /\ isRunning /\ intervalRef = 2
  /\ ticks = 2 /\ timeRemaining = totalDurationSeconds - 2

\* C14 as stated: next and previous leave the remaining time, isRunning and
\* the scheduled timer unchanged; start, pause, reset and tick leave the
\* step cursor unchanged.
C14_Independent ==
  [][/\ lastOp' \in {"next", "prev"}
          => UNCHANGED <<timeRemaining, isRunning, activeIntervals>>
     /\ lastOp' \in {"toggle", "reset", "tick"}
          => currentStep' = currentStep]_vars

\* C14 as amended: the same, except that next at the last index, which
\* completes and so ends the session, cancels the scheduled timer.
C14_IndependentAmended ==
  [][/\ (lastOp' = "prev" \/ (lastOp' = "next" /\ mounted'))
          => UNCHANGED <<timeRemaining, isRunning, activeIntervals>>
     /\ (lastOp' = "next" /\ ~mounted')
          => /\ UNCHANGED <<timeRemaining, isRunning>>
             /\ activeIntervals' = {}
     /\ lastOp' \in {"toggle", "reset", "tick"}
          => currentStep' = currentStep]_vars

\* next has just reached the last step while the timer runs: it still runs.
C14_Witness ==
  /\ mounted /\ lastOp = "next" /\ currentStep = Len(steps) - 1
  /\ currentStep > 0 /\ isRunning /\ activeIntervals = {intervalRef}

\* C15: an uninterrupted countdown has time left before the
\* totalDurationSeconds-th tick, that tick leaves 0 on the clock, the timer
\* stopped and nothing scheduled, and a running timer always gets there.
C15_Expires ==
  /\ []((mounted /\ ticks < totalDurationSeconds) => timeRemaining > 0)
  /\ []((mounted /\ lastOp = "tick" /\ ticks = totalDurationSeconds)
          => (timeRemaining = 0 /\ ~isRunning /\ activeIntervals = {}))
  /\ (mounted /\ isRunning)
       ~> (timeRemaining = 0 /\ ~isRunning /\ activeIntervals = {})

\* The totalDurationSeconds-th tick of the first timer has been delivered.
C15_Witness ==
  /\ mounted /\ lastOp = "tick" /\ ticks = totalDurationSeconds
  /\ timeRemaining = 0 /\ ~isRunning /\ intervalRef = 1

\* C16: an activity with a non-positive duration or with no non-empty
\* instruction line never gets a live session.
C16_ConstructionFailsFast ==
  (totalDurationSeconds <= 0 \/ Len(steps) = 0) => ~mounted

\* C17: every entry into facilitation starts from the full duration, a
\* stopped timer, step 0 and no scheduled timer, whatever the previous
\* session left behind.
C17_FreshSession ==
  [][lastOp' = "startGame"
       => /\ timeRemaining' = totalDurationSeconds'
          /\ ~isRunning'
          /\ currentStep' = 0
          /\ activeIntervals' = {}]_vars

\* A second entry after a session that had started its timer, had moved on
\* and was completed.
C17_Witness ==
  /\ mounted /\ lastOp = "startGame" /\ completeCount = 1 /\ nextTimerId > 1
  /\ Len(steps) = 2
  /\ timeRemaining = totalDurationSeconds /\ ~isRunning /\ currentStep = 0

\* C18: the timer colour and the progress-bar colour are the three bands of
\* timeRemaining / totalDurationSeconds: Normal (teal) above 1/2, Warning
\* (amber) above 1/5 up to 1/2, Critical (red) up to 1/5.
C18_Band ==
  IF 2 * timeRemaining > totalDurationSeconds THEN "Normal"
  ELSE IF 5 * timeRemaining > totalDurationSeconds THEN "Warning"
  ELSE "Critical"

C18_UrgencyBands ==
  /\ getTimerColor(timeRemaining, game) =
       [Normal |-> "text-teal-600", Warning |-> "text-amber-500",
        Critical |-> "text-red-600"][C18_Band]
  /\ getProgressColor(timeRemaining, game) =
       [Normal |-> "bg-gradient-to-r from-teal-500 to-teal-600",
        Warning |-> "bg-gradient-to-r from-amber-500 to-amber-600",
        Critical |-> "bg-gradient-to-r from-red-500 to-red-600"][C18_Band]

\* The countdown stands exactly at one half of the duration: Warning.
C18_Witness ==
  /\ mounted /\ lastOp = "tick" /\ 2 * timeRemaining = totalDurationSeconds
  /\ getTimerColor(timeRemaining, game) = "text-amber-500"

\* The number a string of decimal digits denotes.
RECURSIVE C19_Value(_)
C19_Value(str) ==
  IF str = <<>> THEN 0
  ELSE 10 * C19_Value(SubSeq(str, 1, Len(str) - 1))
         + (CHOOSE d \in 0..9 : Digits[d + 1] = str[Len(str)])

C19_IsDigits(str) ==
  \A i \in 1..Len(str) : \E d \in 0..9 : Digits[d + 1] = str[i]

\* C19: formatTime gives MM:SS, MM the whole minutes in at least two digits
\* (more when there are 100 minutes or more, never reduced modulo 60) and SS
\* the seconds modulo 60 in two digits; 125 gives 02:05 and 0 gives 00:00.
C19_FormatTime ==
  fmtOut # <<>> =>
    LET n == Len(fmtOut)
        mm == SubSeq(fmtOut, 1, n - 3)
        ss == SubSeq(fmtOut, n - 1, n)
    IN /\ n >= 5
       /\ fmtOut[n - 2] = ":"
       /\ C19_IsDigits(mm) /\ C19_IsDigits(ss)
       /\ C19_Value(mm) = fmtIn \div 60
       /\ C19_Value(ss) = fmtIn % 60
       /\ n > 5 => mm[1] # "0"
       /\ fmtIn = 125 => fmtOut = <<"0", "2", ":", "0", "5">>
       /\ fmtIn = 0 => fmtOut = <<"0", "0", ":", "0", "0">>

\* 61 minutes and 1 second: the minutes go beyond 59.
C19_Witness ==
  fmtIn = 3661 /\ fmtOut = <<"6", "1", ":", "0", "1">>

\* The entry a call works on: the stored one, or a fresh window.
C20_Entry ==
  IF rlStore = {} THEN [count |-> 0, resetTime |-> rlNow + windowMs]
  ELSE CHOOSE e \in rlStore : TRUE

\* C20: within the window isRequestAllowed answers whether fewer than
\* maxRequests requests are recorded and changes nothing; from resetTime on
\* it answers true and restarts the window with count 0; recordRequest adds
\* 1 to the count of the window, starting from 0 in a new window.
C20_FixedWindow ==
  [][/\ (rlOp' = "isRequestAllowed" /\ rlNow < C20_Entry.resetTime)
          => /\ rlAllowed' = (C20_Entry.count < maxRequests)
             /\ rlStore' = rlStore
     /\ (rlOp' = "isRequestAllowed" /\ rlNow >= C20_Entry.resetTime)
          => /\ rlAllowed'
             /\ rlStore' = {[count |-> 0, resetTime |-> rlNow + windowMs]}
     /\ (rlOp' = "recordRequest" /\ rlNow < C20_Entry.resetTime)
          => rlStore' = {[count |-> C20_Entry.count + 1,
                          resetTime |-> C20_Entry.resetTime]}
     /\ (rlOp' = "recordRequest" /\ rlNow >= C20_Entry.resetTime)
          => rlStore' = {[count |-> 1, resetTime |-> rlNow + windowMs]}]_vars

\* maxRequests requests are recorded in a window that has not expired and
\* isRequestAllowed has just answered false.
C20_Witness ==
  /\ rlOp = "isRequestAllowed" /\ ~rlAllowed
  /\ rlStore # {} /\ C20_Entry.count = maxRequests
  /\ rlNow > 0 /\ rlNow < C20_Entry.resetTime

\* C21: setUserProvidedKey throws 'Invalid API key format' for every key
\* that is empty, does not start with 'hf_' or has a trimmed length of at
\* most 10, leaving the stored key and config as they were; every other key
\* is written to storage.
C21_Invalid(key) ==
  \/ key = <<>>
  \/ ~(Len(key) >= 3 /\ key[1] = "h" /\ key[2] = "f" /\ key[3] = "_")
  \/ Len(trim(key)) <= 10

C21_RejectsInvalid ==
  [][akOp' = "setUserProvidedKey" =>
       IF C21_Invalid(akArg')
       THEN /\ akThrew' = "Invalid API key format"
            /\ akKey' = akKey /\ akConfig' = akConfig
       ELSE /\ akThrew' = NoError
            /\ akKey' = {akArg'}]_vars

\* C22: getAPIKeyConfig returns the stored user key with source
\* 'user-provided' whenever one is stored, else the environment key with
\* source 'environment', else null; clearUserProvidedKey removes key and
\* config.
C22_KeyPrecedence ==
  [][/\ akOp' = "getAPIKeyConfig" =>
          /\ akKey # {} =>
               \E c \in akResult' :
                 /\ akResult' = {c}
                 /\ c.key \in akKey /\ c.source = "user-provided"
          /\ (akKey = {} /\ akEnv \notin {{}, {<<>>}}) =>
               \E c \in akResult' :
                 /\ akResult' = {c}
                 /\ c.key \in akEnv /\ c.source = "environment"
          /\ (akKey = {} /\ akEnv \in {{}, {<<>>}}) => akResult' = {}
     /\ akOp' = "clearUserProvidedKey" => (akKey' = {} /\ akConfig' = {})]_vars

\* A key was stored, then cleared, and the configuration asked for falls
\* back to the environment's key.
C22_Witness ==
  /\ akOp = "getAPIKeyConfig" /\ akKey = {} /\ akConfig = {}
  /\ akArg # <<>> /\ akThrew = NoError
  /\ \E c \in akResult : c.source = "environment" /\ c.key = EnvKey

\* The recorded requests that lie within the time window ending now.
C23_Recorded ==
  Cardinality({i \in 1..Len(llmRequests) : llmNow - llmRequests[i] < timeWindow})

\* C23: a generate call that begins while maxRequests requests are recorded
\* within the window ends with RateLimitError and sends no request; with
\* fewer recorded it sends one.
C23_CheckedBeforeFetch ==
  [][llmLast'.step = "start" =>
       IF C23_Recorded >= llmMaxRequests
       THEN /\ llmLast'.outcome = "RateLimitError"
            /\ llmStarted' = llmStarted /\ llmPc' = llmPc
       ELSE /\ llmLast'.outcome = "pending"
            /\ llmStarted' = Append(llmStarted, llmNow)]_vars

\* A call has just been refused with the full quota recorded.
C23_Witness ==
  /\ llmLast.step = "start" /\ llmLast.outcome = "RateLimitError"
  /\ C23_Recorded = llmMaxRequests

\* C24: a call that ends in an error leaves the number of remaining
\* requests as it was.
C24_FailuresNotRecorded ==
  [][(llmLast'.step \in {"resolve", "reject"} /\ llmLast'.outcome = "Error")
       => getRemainingRequests(llmRequests', llmNow')
            = getRemainingRequests(llmRequests, llmNow)]_vars

\* C29: at most maxRequests fetches are issued within any one window.
C29_BoundedFetches ==
  \A i \in 1..Len(llmStarted) :
    Cardinality({j \in 1..Len(llmStarted) :
                   /\ llmStarted[j] >= llmStarted[i]
                   /\ llmStarted[j] - llmStarted[i] < timeWindow})
      <= llmMaxRequests

\* The positions of the newlines of the raw text, with 0 and Len + 1 as the
\* ends: source line k lies strictly between the k-th and (k+1)-th of them.
C25_Breaks ==
  {0, Len(stepsIn) + 1} \cup {i \in 1..Len(stepsIn) : stepsIn[i] = "\n"}

C25_LineCount == Cardinality(C25_Breaks) - 1

\* The position of the k-th break, counted from 1.
C25_Break(k) ==
  CHOOSE b \in C25_Breaks : Cardinality({c \in C25_Breaks : c < b}) = k - 1

\* Step i is source line k without the blanks around it.
C25_IsLine(i, k) ==
  LET from == C25_Break(k) + 1
      to == C25_Break(k + 1) - 1
      ink == {j \in from..to : stepsIn[j] # " "}
  IN /\ ink # {}
     /\ LET first == CHOOSE j \in ink : \A m \in ink : j <= m
            last == CHOOSE j \in ink : \A m \in ink : j >= m
        IN stepsOut[i] = SubSeq(stepsIn, first, last)

C25_Blank(k) ==
  \A j \in (C25_Break(k) + 1)..(C25_Break(k + 1) - 1) : stepsIn[j] = " "

\* C25: every step is non-empty and has no white space at either end, and
\* the steps are the non-blank source lines, trimmed, in the order of the
\* lines.
C25_StepsFromLines ==
  stepsDone =>
    /\ \A i \in 1..Len(stepsOut) :
         /\ stepsOut[i] # <<>>
         /\ stepsOut[i][1] \notin WhiteSpace
         /\ stepsOut[i][Len(stepsOut[i])] \notin WhiteSpace
    /\ \E f \in [1..Len(stepsOut) -> 1..C25_LineCount] :
         /\ \A i \in 1..Len(stepsOut) : C25_IsLine(i, f[i])
         /\ \A i, j \in 1..Len(stepsOut) : i < j => f[i] < f[j]
         /\ \A k \in 1..C25_LineCount :
              (\A i \in 1..Len(stepsOut) : f[i] # k) => C25_Blank(k)

\* Two lines of text around an empty line, the first with a blank in front.
C25_Witness ==
  /\ stepsDone
  /\ stepsIn = <<" ", "a", "\n", "\n", "a">>
  /\ stepsOut = << <<"a">>, <<"a">> >>

\* C26: an OPTIONS request is answered with status 200 and an empty body,
\* every other method that is not POST with 405 'Method not allowed'.
C26_PreflightAnswered ==
  \A e \in hEvent :
    (hPc = "done" /\ e.httpMethod # "POST") =>
      \E r \in hResponse :
        IF e.httpMethod = "OPTIONS"
        THEN r.statusCode = 200 /\ r.body = ""
        ELSE r.statusCode = 405
               /\ r.body = "{\"error\":\"Method not allowed\"}"

C27_LogOps == {"logAPICall", "logError", "logRateLimit", "logKeyChange"}

C27_Type ==
  [logAPICall |-> "api_call", logError |-> "error",
   logRateLimit |-> "rate_limit", logKeyChange |-> "key_change"]

\* C27: the stored log never holds more than CLEANUP_THRESHOLD events; an
\* append that would exceed it leaves exactly MAX_LOG_ENTRIES events, none
\* older than a discarded one, the new event among them; any other append
\* adds the event at the end.
C27_BoundedLog ==
  [][ulOp' \in C27_LogOps =>
       LET new == [timestamp |-> ulNow', type |-> C27_Type[ulOp']]
           before == {ulEvents[i] : i \in 1..Len(ulEvents)} \cup {new}
           kept == {ulEvents'[i] : i \in 1..Len(ulEvents')}
           times == {k.timestamp : k \in kept}
           oldest == CHOOSE m \in times : \A t \in times : m <= t
       IN /\ Len(ulEvents') <= CLEANUP_THRESHOLD
          /\ IF Len(ulEvents) + 1 > CLEANUP_THRESHOLD
             THEN /\ Len(ulEvents') = MAX_LOG_ENTRIES
                  /\ new \in kept
                  /\ kept \subseteq before
                  /\ \A d \in before \ kept : d.timestamp <= oldest
             ELSE ulEvents' = Append(ulEvents, new)]_vars

\* An error was logged into a full log and the clean-up has run.
C27_Witness ==
  /\ ulOp = "logError"
  /\ Len(ulEvents) = MAX_LOG_ENTRIES
  /\ ulEvents[1] = [timestamp |-> ulNow, type |-> "error"]
  /\ \A i \in 1..Len(ulEvents) :
       ulEvents[i].timestamp > CLEANUP_THRESHOLD + 1 - MAX_LOG_ENTRIES

\* C28: onComplete is called only by next at the last step index; a tick
\* that expires the timer leaves the step cursor alone and does not end the
\* session.
C28_CompleteOnlyAtLast ==
  [][/\ completeCount' # completeCount =>
          /\ lastOp' = "next"
          /\ mounted
          /\ currentStep = Len(steps) - 1
     /\ (lastOp' = "tick" /\ mounted /\ timeRemaining <= 1) =>
          /\ currentStep' = currentStep
          /\ mounted'
          /\ completeCount' = completeCount]_vars

\* C30: in the library view currentPage lies in 1..max(1, totalPages), and
\* the page shown has a game on it whenever the filtered list has one.
C30_PageInRange ==
  gridShown =>
    /\ currentPage >= 1
    /\ currentPage <= (IF totalPages > 1 THEN totalPages ELSE 1)
    /\ filteredGames # <<>> => paginatedGames # <<>>
====
